---------------------------- MODULE Spec2Model ----------------------------
(***************************************************************************)
(* Model of 0x00-personal_data/filtered_logger.py: filter_datum, the       *)
(* RedactingFormatter and get_logger.                                      *)
(*                                                                         *)
(* Strings are sequences of one-character strings.  A call either returns  *)
(* a string or raises re.error; both outcomes are values of the form       *)
(* [err |-> BOOLEAN, str |-> sequence].                                    *)
(*                                                                         *)
(* filter_datum builds the pattern  f"{field}=[^{separator}]+"  and hands  *)
(* it to re.sub, so the field name is read as a regular expression.  The   *)
(* characters the model draws field names from are letters, "=", and the   *)
(* quantifiers "*" and "+"; separators are drawn from ";" and " ".  No     *)
(* input holds a backslash, a bracket, "^" or "-", so a character class    *)
(* is the set of the separator's characters and the replacement template   *)
(* is literal text.  No field name holds two quantifiers in a row.         *)
(***************************************************************************)
EXTENDS Integers, Sequences, FiniteSets, TLC

VARIABLES
    args,        \* filter_datum's arguments: fields, redaction, message, separator
    returned,    \* whether the filter_datum call has ended
    result,      \* what the filter_datum call returned or raised
    level,       \* the "user_data" logger's level
    propagate,   \* the "user_data" logger's propagate flag
    handlers,    \* the "user_data" logger's handlers, each with its formatter
    formatter,   \* the RedactingFormatter a caller constructed, if any
    pc,          \* "idle", or "returned" right after a format or info call
    op,          \* the call that returned: "format" or "info"
    passed,      \* the log record as it was when the call began
    record,      \* the same log record after the call
    raised,      \* whether the format call raised
    lines        \* the line format returned, or the lines info wrote

fvars == <<args, returned, result>>

lvars == <<level, propagate, handlers, formatter, pc, op, passed, record,
           raised, lines>>

vars == <<fvars, lvars>>

(***************************************************************************)
(* Bounds of the model.                                                    *)
(***************************************************************************)
MaxMsgLen == 4
MaxFields == 2
MaxHandlers == 2
MaxSegments == 2

(***************************************************************************)
(* Outcomes of a call.                                                     *)
(***************************************************************************)
Ok(s) == [err |-> FALSE, str |-> s]

ReError == [err |-> TRUE, str |-> <<>>]

SeqsUpTo(S, n) == UNION {[1..k -> S] : k \in 0..n}

(***************************************************************************)
(* re.compile of the field part of the pattern: a sequence of items, each  *)
(* a character with its repetition "1", "*" or "+".  A quantifier with no  *)
(* character before it to repeat does not compile.                         *)
(***************************************************************************)
IsQuantifier(c) == c \in {"*", "+"}

RECURSIVE ParseField(_, _, _)
ParseField(field, i, items) ==
    IF i > Len(field) THEN [ok |-> TRUE, items |-> items]
    ELSE IF IsQuantifier(field[i])
         THEN IF items = <<>> \/ items[Len(items)].q # "1"
              THEN [ok |-> FALSE, items |-> <<>>]
              ELSE ParseField(field, i + 1,
                              [items EXCEPT ![Len(items)].q = field[i]])
         ELSE ParseField(field, i + 1, Append(items, [c |-> field[i], q |-> "1"]))

(* The character class [^{separator}]: with no separator the text "[^]+"   *)
(* has no closing bracket and does not compile.                            *)
ClassCompiles(separator) == separator # <<>>

Excluded(separator) == {separator[i] : i \in 1..Len(separator)}

(***************************************************************************)
(* The backtracking match of the compiled pattern at one position.         *)
(* MatchAt is the position after the match, 0 when there is none.          *)
(***************************************************************************)
RECURSIVE RunOf(_, _, _)
RunOf(text, pos, c) ==
    IF pos <= Len(text) /\ text[pos] = c THEN 1 + RunOf(text, pos + 1, c) ELSE 0

RECURSIVE RunExcluding(_, _, _)
RunExcluding(text, pos, S) ==
    IF pos <= Len(text) /\ text[pos] \notin S
    THEN 1 + RunExcluding(text, pos + 1, S) ELSE 0

MinRepeat(q) == IF q = "+" THEN 1 ELSE 0

RECURSIVE MatchAt(_, _, _, _, _)
RECURSIVE TryRepeat(_, _, _, _, _, _)
MatchAt(items, k, text, pos, S) ==
    IF k > Len(items)
    THEN IF pos <= Len(text) /\ text[pos] = "="
         THEN LET run == RunExcluding(text, pos + 1, S)
              IN  IF run >= 1 THEN pos + 1 + run ELSE 0
         ELSE 0
    ELSE IF items[k].q = "1"
         THEN IF pos <= Len(text) /\ text[pos] = items[k].c
              THEN MatchAt(items, k + 1, text, pos + 1, S)
              ELSE 0
         ELSE TryRepeat(items, k, text, pos, S, RunOf(text, pos, items[k].c))

(* A greedy quantifier: the longest repetition first, then shorter ones.   *)
TryRepeat(items, k, text, pos, S, j) ==
    IF j < MinRepeat(items[k].q) THEN 0
    ELSE LET e == MatchAt(items, k + 1, text, pos + j, S)
         IN  IF e # 0 THEN e ELSE TryRepeat(items, k, text, pos, S, j - 1)

(***************************************************************************)
(* re.sub: leftmost non-overlapping matches, each replaced by repl.        *)
(***************************************************************************)
RECURSIVE SubFrom(_, _, _, _, _)
SubFrom(items, repl, text, pos, S) ==
    IF pos > Len(text) THEN <<>>
    ELSE LET e == MatchAt(items, 1, text, pos, S)
         IN  IF e # 0
             THEN repl \o SubFrom(items, repl, text, e, S)
             ELSE <<text[pos]>> \o SubFrom(items, repl, text, pos + 1, S)

Replacement(field, redaction) == field \o <<"=">> \o redaction

re_sub(field, redaction, message, separator) ==
    LET parsed == ParseField(field, 1, <<>>)
    IN  IF ~(parsed.ok /\ ClassCompiles(separator)) THEN ReError
        ELSE Ok(SubFrom(parsed.items, Replacement(field, redaction), message, 1,
                        Excluded(separator)))

(***************************************************************************)
(* filter_datum: one re.sub per field, in order, on the message so far.    *)
(* An re.error leaves the loop at once.                                    *)
(***************************************************************************)
RECURSIVE FilterFrom(_, _, _, _, _)
FilterFrom(fields, i, redaction, message, separator) ==
    IF i > Len(fields) THEN Ok(message)
    ELSE LET r == re_sub(fields[i], redaction, message, separator)
         IN  IF r.err THEN r
             ELSE FilterFrom(fields, i + 1, redaction, r.str, separator)

(* Mutant: every pass reads the message as given instead of the message    *)
(* the earlier passes produced, and the last pass's output is returned.    *)
filter_datum_unthreaded(fields, redaction, message, separator) ==
    IF fields = <<>> THEN Ok(message)
    ELSE IF \E i \in 1..Len(fields) :
                re_sub(fields[i], redaction, message, separator).err
         THEN ReError
         ELSE re_sub(fields[Len(fields)], redaction, message, separator)

(* Mutant: the separator's character class is compiled before the loop.    *)
filter_datum_precompiled(fields, redaction, message, separator) ==
    IF ~ClassCompiles(separator) THEN ReError
    ELSE FilterFrom(fields, 1, redaction, message, separator)

filter_datum(fields, redaction, message, separator) ==
    FilterFrom(fields, 1, redaction, message, separator)

(***************************************************************************)
(* The module's constants.                                                 *)
(***************************************************************************)
F_name == <<"n", "a", "m", "e">>

F_email == <<"e", "m", "a", "i", "l">>

F_phone == <<"p", "h", "o", "n", "e">>

F_ssn == <<"s", "s", "n">>

F_password == <<"p", "a", "s", "s", "w", "o", "r", "d">>

PII_FIELDS == <<F_name, F_email, F_phone, F_ssn, F_password>>

REDACTION == <<"*", "*", "*">>

SEPARATOR == <<";">>

(* The template: literal characters and the four % placeholders.           *)
FORMAT ==
    <<"[", "H", "O", "L", "B", "E", "R", "T", "O", "N", "]", " ",
      "%(name)s", " ", "%(levelname)s", " ", "%(asctime)-15s", ":", " ",
      "%(message)s">>

(***************************************************************************)
(* Log records.  msg is the raw message; message and asctime are the texts *)
(* logging.Formatter.format stores on the record before it fills the       *)
(* template.  Records carry no args, exception or stack information.       *)
(***************************************************************************)
NoRecord ==
    [name |-> <<>>, levelname |-> <<>>, created |-> 0, msg |-> <<>>,
     message |-> <<>>, asctime |-> <<>>]

LogRecord(name, levelname, created, msg) ==
    [name |-> name, levelname |-> levelname, created |-> created, msg |-> msg,
     message |-> <<>>, asctime |-> <<>>]

Digits == <<"0", "1", "2", "3", "4", "5", "6", "7", "8", "9">>

(* formatTime with the default date format, for a record created t seconds *)
(* (t < 10) after the epoch, in UTC: "1970-01-01 00:00:0t,000".            *)
formatTime(created) ==
    <<"1", "9", "7", "0", "-", "0", "1", "-", "0", "1", " ",
      "0", "0", ":", "0", "0", ":", "0", Digits[created + 1], ",", "0", "0", "0">>

(* %-15s: left-justified in a field of at least 15 characters.             *)
PadRight(text, width) ==
    text \o [i \in 1..(IF Len(text) >= width THEN 0 ELSE width - Len(text)) |-> " "]

Interpolate(token, rec) ==
    CASE token = "%(name)s" -> rec.name
      [] token = "%(levelname)s" -> rec.levelname
      [] token = "%(asctime)-15s" -> PadRight(rec.asctime, 15)
      [] token = "%(message)s" -> rec.message
      [] OTHER -> <<token>>

RECURSIVE FillFrom(_, _, _)
FillFrom(fmt, i, rec) ==
    IF i > Len(fmt) THEN <<>>
    ELSE Interpolate(fmt[i], rec) \o FillFrom(fmt, i + 1, rec)

(* logging.Formatter.format: message and asctime are set on the record,    *)
(* then the template is filled from the record.                            *)
Formatter_format(self, rec) ==
    LET filled == [rec EXCEPT !.message = rec.msg,
                              !.asctime = formatTime(rec.created)]
    IN  [record |-> filled, line |-> FillFrom(self.fmt, 1, filled)]

(***************************************************************************)
(* RedactingFormatter.                                                     *)
(***************************************************************************)
RedactingFormatter(flds) == [fields |-> flds, fmt |-> FORMAT]

(* Mutant: the record's message is formatted as it came.                   *)
format_unredacted(self, rec) ==
    [raised |-> FALSE, self |-> self,
     record |-> Formatter_format(self, rec).record,
     line |-> Formatter_format(self, rec).line]

(* Mutant: the sanitized message goes into a fresh record of the root      *)
(* logger, which is formatted in place of the one passed in.               *)
format_fresh_record(self, rec) ==
    LET r == filter_datum(self.fields, REDACTION, rec.msg, SEPARATOR)
        fresh == LogRecord(<<"r", "o", "o", "t">>, rec.levelname, rec.created, r.str)
    IN  IF r.err
        THEN [raised |-> TRUE, self |-> self, record |-> rec, line |-> <<>>]
        ELSE [raised |-> FALSE, self |-> self,
              record |-> Formatter_format(self, fresh).record,
              line |-> Formatter_format(self, fresh).line]

(* format: record.msg is overwritten with filter_datum's result, then the  *)
(* base class formats the record.  When filter_datum raises, the record is *)
(* as it was.                                                              *)
format(self, rec) ==
    LET r == filter_datum(self.fields, REDACTION, rec.msg, SEPARATOR)
        sanitized == [rec EXCEPT !.msg = r.str]
    IN  IF r.err
        THEN [raised |-> TRUE, self |-> self, record |-> rec, line |-> <<>>]
        ELSE [raised |-> FALSE, self |-> self,
              record |-> Formatter_format(self, sanitized).record,
              line |-> Formatter_format(self, sanitized).line]

(***************************************************************************)
(* The "user_data" logger.                                                 *)
(***************************************************************************)
UserData == <<"u", "s", "e", "r", "_", "d", "a", "t", "a">>

INFO == <<"I", "N", "F", "O">>

ERROR == <<"E", "R", "R", "O", "R">>

StreamHandler(fmtr) == [formatter |-> fmtr]

(* Logger.callHandlers: every handler formats the one record and writes    *)
(* the line; a handler whose formatter raises writes nothing.              *)
RECURSIVE callHandlers(_, _, _)
callHandlers(hs, i, rec) ==
    IF i > Len(hs) THEN [record |-> rec, lines |-> <<>>, handlers |-> hs]
    ELSE LET f == format(hs[i].formatter, rec)
             rest == callHandlers([hs EXCEPT ![i].formatter = f.self], i + 1,
                                  f.record)
         IN  [rest EXCEPT !.lines =
                  (IF f.raised THEN <<>> ELSE <<f.line>>) \o rest.lines]

(***************************************************************************)
(* The messages and records callers hand over: segments key=value (and one *)
(* segment with no "="), joined the way main joins them.                   *)
(***************************************************************************)
Keys == {F_name, <<"i", "p">>, <<"u", "s", "e", "r", "n", "a", "m", "e">>}

Values == {<<>>, <<"J", " ", "S">>}

Segments == {k \o <<"=">> \o v : k \in Keys, v \in Values} \cup {<<"h", "i">>}

JOIN == <<";", " ">>

RECURSIVE JoinFrom(_, _)
JoinFrom(segs, i) ==
    IF i > Len(segs) THEN <<>>
    ELSE IF i = Len(segs) THEN segs[i]
    ELSE segs[i] \o JOIN \o JoinFrom(segs, i + 1)

LogMessages == {JoinFrom(segs, 1) : segs \in SeqsUpTo(Segments, MaxSegments)}

Times == {0, 1}

ConstructorFields == {PII_FIELDS, <<F_name>>, <<<<"+">>>>}

(***************************************************************************)
(* The operations.                                                         *)
(***************************************************************************)
LoggerInit ==
    /\ level = "NOTSET"
    /\ propagate = TRUE
    /\ handlers = <<>>
    /\ formatter = <<>>
    /\ pc = "idle"
    /\ op = "none"
    /\ passed = NoRecord
    /\ record = NoRecord
    /\ raised = FALSE
    /\ lines = <<>>

(* get_logger(): one more StreamHandler on the process-wide logger.        *)
get_logger ==
    /\ pc = "idle"
    /\ Len(handlers) < MaxHandlers
    /\ level' = "INFO"
    /\ propagate' = FALSE
    /\ handlers' = Append(handlers, StreamHandler(RedactingFormatter(PII_FIELDS)))
    /\ UNCHANGED <<formatter, pc, op, passed, record, raised, lines, fvars>>

(* RedactingFormatter(fields), by a caller.                                *)
construct ==
    /\ pc = "idle"
    /\ formatter = <<>>
    /\ \E flds \in ConstructorFields : formatter' = <<RedactingFormatter(flds)>>
    /\ UNCHANGED <<level, propagate, handlers, pc, op, passed, record, raised,
                   lines, fvars>>

Formatted(rec) ==
    LET f == format(formatter[1], rec)
    IN  /\ pc' = "returned"
        /\ op' = "format"
        /\ passed' = rec
        /\ record' = f.record
        /\ raised' = f.raised
        /\ lines' = IF f.raised THEN <<>> ELSE <<f.line>>
        /\ formatter' = <<f.self>>
        /\ UNCHANGED <<level, propagate, handlers, fvars>>

(* formatter.format(record) on a record the caller made.                   *)
format_call ==
    /\ pc = "idle"
    /\ formatter # <<>>
    /\ \E msg \in LogMessages, t \in Times, lv \in {INFO, ERROR} :
           Formatted(LogRecord(UserData, lv, t, msg))

(* formatter.format(record) once more on the record just formatted.        *)
format_again ==
    /\ pc = "returned"
    /\ op = "format"
    /\ ~raised
    /\ passed # record
    /\ Formatted(record)

(* logger.info(message) on the "user_data" logger.  Below level INFO the   *)
(* logger is not enabled and makes no record.                              *)
info ==
    /\ pc = "idle"
    /\ level = "INFO"
    /\ \E msg \in LogMessages, t \in Times :
           LET rec == LogRecord(UserData, INFO, t, msg)
               done == callHandlers(handlers, 1, rec)
           IN  /\ pc' = "returned"
               /\ op' = "info"
               /\ passed' = rec
               /\ record' = done.record
               /\ raised' = FALSE
               /\ lines' = done.lines
               /\ handlers' = done.handlers
               /\ UNCHANGED <<level, propagate, formatter, fvars>>

(* The caller is done with the record and the output.                      *)
release ==
    /\ pc = "returned"
    /\ pc' = "idle"
    /\ op' = "none"
    /\ passed' = NoRecord
    /\ record' = NoRecord
    /\ raised' = FALSE
    /\ lines' = <<>>
    /\ UNCHANGED <<level, propagate, handlers, formatter, fvars>>

Init ==
    /\ args = [fields |-> <<>>, redaction |-> <<>>, message |-> <<>>,
               separator |-> <<>>]
    /\ returned = FALSE
    /\ result = Ok(<<>>)
    /\ LoggerInit

Next == get_logger \/ construct \/ format_call \/ format_again \/ info \/ release

Spec == Init /\ [][Next]_vars

(***************************************************************************)
(* The inputs of a filter_datum call.                                      *)
(***************************************************************************)
Alphabet == {"a", "=", ";", " ", "+"}

Messages == SeqsUpTo(Alphabet, MaxMsgLen)

FieldNames == {<<"a">>, <<"a", "+">>, <<"a", "*">>}

FieldLists == SeqsUpTo(FieldNames, MaxFields)

Redactions == {<<>>, <<"*">>, <<"a", "=", "a">>}

Separators == {<<>>, <<";">>, <<";", " ">>}

InitFilter ==
    /\ args \in [fields : FieldLists, redaction : Redactions,
                 message : Messages, separator : Separators]
    /\ returned = FALSE
    /\ result = Ok(<<>>)
    /\ LoggerInit

Redact ==
    /\ ~returned
    /\ returned' = TRUE
    /\ result' = filter_datum(args.fields, args.redaction, args.message,
                              args.separator)
    /\ UNCHANGED <<args, lvars>>

NextFilter == Redact

SpecFilter == InitFilter /\ [][NextFilter]_vars

(***************************************************************************)
(* Text helpers used to state the properties.                              *)
(***************************************************************************)
OccursAt(text, pos, sub) ==
    /\ pos + Len(sub) - 1 <= Len(text)
    /\ \A i \in 1..Len(sub) : text[pos + i - 1] = sub[i]

Contains(text, sub) == \E pos \in 1..(Len(text) + 1) : OccursAt(text, pos, sub)

Chars(text) == {text[i] : i \in 1..Len(text)}

(* The pieces of text between the occurrences of the one-character sep.    *)
RECURSIVE SplitFrom(_, _, _, _)
SplitFrom(text, pos, sep, piece) ==
    IF pos > Len(text) THEN <<piece>>
    ELSE IF text[pos] = sep
         THEN <<piece>> \o SplitFrom(text, pos + 1, sep, <<>>)
         ELSE SplitFrom(text, pos + 1, sep, Append(piece, text[pos]))

Split(text, sep) == SplitFrom(text, 1, sep, <<>>)

(* A segment is key=value: the key ends at the segment's first "=".        *)
EqAt(seg) == IF \E i \in 1..Len(seg) : seg[i] = "="
             THEN CHOOSE i \in 1..Len(seg) :
                      seg[i] = "=" /\ \A j \in 1..(i - 1) : seg[j] # "="
             ELSE 0

KeyOf(seg) == SubSeq(seg, 1, EqAt(seg) - 1)

ValueOf(seg) == SubSeq(seg, EqAt(seg) + 1, Len(seg))

(***************************************************************************)
(* The reference redaction the specification describes: field names are    *)
(* literal text, and a value is the longest non-empty run that stops where *)
(* the next occurrence of the separator (a string) begins.                 *)
(***************************************************************************)
RECURSIVE RunUntil(_, _, _)
RunUntil(text, pos, sep) ==
    IF pos > Len(text) \/ OccursAt(text, pos, sep) THEN 0
    ELSE 1 + RunUntil(text, pos + 1, sep)

RefMatchAt(field, text, pos, sep) ==
    IF /\ OccursAt(text, pos, field \o <<"=">>)
       /\ RunUntil(text, pos + Len(field) + 1, sep) >= 1
    THEN pos + Len(field) + 1 + RunUntil(text, pos + Len(field) + 1, sep)
    ELSE 0

RECURSIVE RefSubFrom(_, _, _, _, _)
RefSubFrom(field, redaction, text, pos, sep) ==
    IF pos > Len(text) THEN <<>>
    ELSE LET e == RefMatchAt(field, text, pos, sep)
         IN  IF e # 0
             THEN Replacement(field, redaction) \o RefSubFrom(field, redaction, text, e, sep)
             ELSE <<text[pos]>> \o RefSubFrom(field, redaction, text, pos + 1, sep)

RECURSIVE RefFrom(_, _, _, _, _)
RefFrom(flds, i, redaction, text, sep) ==
    IF i > Len(flds) THEN text
    ELSE RefFrom(flds, i + 1, redaction,
                 RefSubFrom(flds[i], redaction, text, 1, sep), sep)

Reference(flds, redaction, text, sep) == RefFrom(flds, 1, redaction, text, sep)

IsLiteral(field) == \A i \in 1..Len(field) : ~IsQuantifier(field[i])

(***************************************************************************)
(* C1: no leakage.  For a one-character separator and a message whose      *)
(* segments are all field=value with a field of the field list and a       *)
(* value, the returned string holds no field=value of the message.  The    *)
(* statement is taken for values that are not empty and share no character *)
(* with the redaction token, so that no value is written by the redaction  *)
(* itself.                                                                 *)
(***************************************************************************)
FieldSet == {args.fields[i] : i \in 1..Len(args.fields)}

WellFormed ==
    /\ Len(args.separator) = 1
    /\ \A i \in 1..Len(Split(args.message, args.separator[1])) :
          LET seg == Split(args.message, args.separator[1])[i]
          IN  /\ EqAt(seg) # 0
              /\ KeyOf(seg) \in FieldSet
              /\ ValueOf(seg) # <<>>
              /\ Chars(ValueOf(seg)) \cap Chars(args.redaction) = {}

C1_NoLeak ==
    (returned /\ ~result.err /\ WellFormed) =>
        \A i \in 1..Len(Split(args.message, args.separator[1])) :
            ~Contains(result.str, Split(args.message, args.separator[1])[i])

(***************************************************************************)
(* C2: filter_datum equals the reference redaction, for one-character      *)
(* separators and for longer ones.  Stated for literal field names.        *)
(***************************************************************************)
C2_EqualsReference ==
    (returned /\ args.separator # <<>> /\ \A f \in FieldSet : IsLiteral(f)) =>
        result = Ok(Reference(args.fields, args.redaction, args.message,
                              args.separator))

(***************************************************************************)
(* C3: idempotence.  Redacting the returned string again, with the same    *)
(* arguments, returns it unchanged.  Stated for redaction tokens that hold *)
(* no character of the separator.                                          *)
(***************************************************************************)
C3_Idempotent ==
    (returned /\ ~result.err
       /\ Chars(args.redaction) \cap Chars(args.separator) = {}) =>
        filter_datum(args.fields, args.redaction, result.str, args.separator)
            = result

(***************************************************************************)
(* C4: field independence.  filter_datum([A, B], r, m, s) is               *)
(* filter_datum([B], r, filter_datum([A], r, m, s), s); a call that raises *)
(* on one side raises on the other.  Checked for every A and B.            *)
(***************************************************************************)
FirstPass ==
    filter_datum(<<args.fields[1]>>, args.redaction, args.message, args.separator)

C4_FieldIndependence ==
    (returned /\ Len(args.fields) = 2) =>
        result = IF FirstPass.err THEN FirstPass
                 ELSE filter_datum(<<args.fields[2]>>, args.redaction,
                                   FirstPass.str, args.separator)

C4_Witness ==
    /\ returned /\ Len(args.fields) = 2 /\ args.fields[1] # args.fields[2]
    /\ ~result.err
    /\ FirstPass.str # args.message
    /\ result.str # FirstPass.str

(***************************************************************************)
(* C5: with an empty field list the message is returned unchanged, for     *)
(* every message, redaction token and separator.                           *)
(***************************************************************************)
C5_EmptyFieldsPassThrough ==
    (returned /\ args.fields = <<>>) => result = Ok(args.message)

C5_Witness ==
    /\ returned /\ args.fields = <<>> /\ args.separator = <<>>
    /\ Len(args.message) = MaxMsgLen /\ result = Ok(args.message)

(***************************************************************************)
(* C7: an unusable configuration is rejected before any redaction call, so *)
(* no filter_datum call ends in a pattern error.                           *)
(***************************************************************************)
C7_NoErrorAtUse == returned => ~result.err

(***************************************************************************)
(* C8: field names are matched literally.  With one field and a            *)
(* one-character separator, the call rewrites exactly the occurrences of   *)
(* the literal name followed by "=" and a value.                           *)
(***************************************************************************)
C8_LiteralFieldNames ==
    (returned /\ Len(args.fields) = 1 /\ Len(args.separator) = 1) =>
        result = Ok(Reference(args.fields, args.redaction, args.message,
                              args.separator))

(***************************************************************************)
(* C6: format returns "[HOLBERTON] <logger name> <level name>              *)
(* <timestamp>: <message>" where <message> is filter_datum(fields bound at *)
(* construction, "***", the record's raw message, ";"), and raises exactly *)
(* when filter_datum does.  With the default field list, a segment that is *)
(* one of the five fields with a value comes out as field=***, and a       *)
(* segment that holds no "<field>=" of the five comes out unchanged.       *)
(***************************************************************************)
ExpectedLine(rec, text) ==
    <<"[", "H", "O", "L", "B", "E", "R", "T", "O", "N", "]", " ">>
        \o rec.name \o <<" ">> \o rec.levelname \o <<" ">>
        \o formatTime(rec.created) \o <<":", " ">> \o text

PII == {PII_FIELDS[i] : i \in 1..Len(PII_FIELDS)}

RECURSIVE LeadingSpaces(_)
LeadingSpaces(seg) ==
    IF seg # <<>> /\ Head(seg) = " " THEN <<" ">> \o LeadingSpaces(Tail(seg))
    ELSE <<>>

Strip(seg) == SubSeq(seg, Len(LeadingSpaces(seg)) + 1, Len(seg))

SegmentsIn == Split(passed.msg, ";")

SegmentsOut == Split(record.msg, ";")

FormatReturned == pc = "returned" /\ op = "format"

C6_FormatLine ==
    FormatReturned =>
        LET fd == filter_datum(formatter[1].fields, REDACTION, passed.msg, SEPARATOR)
        IN  /\ raised = fd.err
            /\ ~raised => lines = <<ExpectedLine(passed, fd.str)>>
            /\ (~raised /\ formatter[1].fields = PII_FIELDS) =>
                  /\ Len(SegmentsOut) = Len(SegmentsIn)
                  /\ \A i \in 1..Len(SegmentsIn) :
                        /\ (/\ EqAt(SegmentsIn[i]) # 0
                            /\ KeyOf(Strip(SegmentsIn[i])) \in PII
                            /\ ValueOf(SegmentsIn[i]) # <<>>) =>
                               SegmentsOut[i] =
                                   LeadingSpaces(SegmentsIn[i])
                                       \o KeyOf(Strip(SegmentsIn[i]))
                                       \o <<"=">> \o REDACTION
                        /\ (\A f \in PII : ~Contains(SegmentsIn[i], f \o <<"=">>)) =>
                               SegmentsOut[i] = SegmentsIn[i]

C6_Witness ==
    /\ FormatReturned /\ ~raised
    /\ formatter[1].fields = PII_FIELDS
    /\ Contains(passed.msg, F_name \o <<"=", "J", " ", "S", ";", " ", "i", "p", "=", "J">>)
    /\ Contains(lines[1], F_name \o <<"=", "*", "*", "*", ";", " ", "i", "p", "=", "J", " ", "S">>)

(* C6 as first stated: with the default field list every segment whose key *)
(* is not one of the five fields is output unchanged.                      *)
C6_OtherSegmentsUnchanged ==
    (FormatReturned /\ ~raised /\ formatter[1].fields = PII_FIELDS) =>
        /\ Len(SegmentsOut) = Len(SegmentsIn)
        /\ \A i \in 1..Len(SegmentsIn) :
              KeyOf(Strip(SegmentsIn[i])) \notin PII =>
                  SegmentsOut[i] = SegmentsIn[i]

C10_OneHandler ==
    level = "INFO" =>
        /\ Len(handlers) = 1
        /\ (pc = "returned" /\ op = "info") => Len(lines) = 1

=============================================================================
